---- MODULE Spec2Model ----
(***************************************************************************)
(* Model of MeshCore/nodes/sync_data.py: the canonical Node, its           *)
(* fingerprint (Node.hash), the two source normalisers                     *)
(* (get_den_repeaters, get_den_companions), the reconciliation             *)
(* (_filter_diff_nodes) and the snapshot store policy (sync_repeaters,     *)
(* sync_companions, run in that order by main).                            *)
(*                                                                         *)
(* Python strings are sequences of one-character strings, so that slicing  *)
(* (public_key[:4]), upper() and the f-string of Node.hash are computed    *)
(* as the code computes them.                                              *)
(***************************************************************************)
EXTENDS Integers, Sequences, FiniteSets, TLC

VARIABLES
    repeater_data_file,    \* file at --repeaters-data-file: [exists, data]
    companion_data_file,   \* file at --companions-data-file: [exists, data]
    last,                  \* the sync that returned last: "none", "repeaters", "companions"
    before,                \* the file of that sync as it was when the sync was called
    observed,              \* its local repeaters / companions
    existing_nodes,        \* SpecDiff: first argument of _filter_diff_nodes
    new_nodes,             \* SpecDiff: second argument of _filter_diff_nodes
    result,                \* SpecDiff: the tuple _filter_diff_nodes returned
    meshmapper_repeaters,  \* SpecRoom: response of the MeshMapper API
    letsmesh_nodes,        \* SpecRoom: response of the LetsMesh API
    repeaters,             \* SpecRoom: the list get_den_repeaters returned
    pc                     \* "main", or the position of SpecDiff / SpecRoom

vars == <<repeater_data_file, companion_data_file, last, before, observed,
          existing_nodes, new_nodes, result, meshmapper_repeaters, letsmesh_nodes,
          repeaters, pc>>

----------------------------------------------------------------------------
(* Bounds *)

\* longest MeshMapper response (list of repeater records)
MaxRepeaters == 2
\* longest LetsMesh response (list of node records)
MaxLetsMesh == 1
\* longest list handed to _filter_diff_nodes by SpecDiff
MaxDiffLen == 2
\* longest API response handed to get_den_repeaters by SpecRoom
MaxRoomLen == 2

\* all sequences over S of length at most n
SeqUpTo(S, n) == UNION {[1..k -> S] : k \in 0..n}

----------------------------------------------------------------------------
(* Strings *)

\* str.upper() on one character (the characters the model uses)
UpperChar(c) ==
    CASE c = "a" -> "A" [] c = "b" -> "B" [] c = "c" -> "C" [] c = "d" -> "D"
      [] c = "e" -> "E" [] c = "f" -> "F" [] c = "n" -> "N"
      [] OTHER -> c

\* str.upper()
Upper(s) == [i \in 1..Len(s) |-> UpperChar(s[i])]

\* s[:n]
Prefix(s, n) == SubSeq(s, 1, IF Len(s) < n THEN Len(s) ELSE n)

\* str(d) for a one-digit integer
Digit(d) ==
    CASE d = 0 -> "0" [] d = 1 -> "1" [] d = 2 -> "2" [] d = 3 -> "3" [] d = 4 -> "4"
      [] d = 5 -> "5" [] d = 6 -> "6" [] d = 7 -> "7" [] d = 8 -> "8" [] d = 9 -> "9"

\* Optional[T] values: None is the empty tuple, a present value x is <<x>>
None == <<>>

Some(x) == <<x>>

\* f"{x}" for an Optional[float] whose floats have whole one-digit values:
\* "None", or the repr of the float ("3.0")
FormatFloat(x) ==
    IF x = None THEN <<"N", "o", "n", "e">> ELSE <<Digit(x[1]), ".", "0">>

\* f"{b}" for a bool
FormatBool(b) ==
    IF b THEN <<"T", "r", "u", "e">> ELSE <<"F", "a", "l", "s", "e">>

----------------------------------------------------------------------------
(* NodeType and Node *)

NodeTypes == {"REPEATER", "ROOM_SERVER", "COMPANION"}

\* NodeType.value
NodeTypeValue(t) ==
    CASE t = "REPEATER" -> 1 [] t = "ROOM_SERVER" -> 2 [] t = "COMPANION" -> 3

\* NodeType(value), as pydantic builds the enum from the stored integer
NodeTypeOfValue(v) ==
    CASE v = 1 -> "REPEATER" [] v = 2 -> "ROOM_SERVER" [] v = 3 -> "COMPANION"

\* Node(...)
Node(public_key, name, latitude, longitude, node_type, is_observer, contact, created_at, last_heard) ==
    [public_key |-> public_key, name |-> name, latitude |-> latitude,
     longitude |-> longitude, node_type |-> node_type, is_observer |-> is_observer,
     contact |-> contact, created_at |-> created_at, last_heard |-> last_heard]

\* public_key_id_4_char as it would be over the whole public key
PublicKeyIdWholeKey(node) == Upper(node.public_key)

\* Node.public_key_id_4_char
public_key_id_4_char(node) == Upper(Prefix(node.public_key, 4))

\* Node.public_key_id
public_key_id(node) == public_key_id_4_char(node)

\* HashInput as it would be with node_type left out of the f-string
HashInputWithoutType(node) ==
    node.name \o <<":">> \o public_key_id(node) \o <<":">>
      \o FormatFloat(node.latitude) \o <<":">> \o FormatFloat(node.longitude)
      \o <<":">> \o FormatBool(node.is_observer)

\* the f-string _input of Node.hash
HashInput(node) ==
    node.name \o <<":">> \o public_key_id(node) \o <<":">>
      \o <<Digit(NodeTypeValue(node.node_type))>> \o <<":">>
      \o FormatFloat(node.latitude) \o <<":">> \o FormatFloat(node.longitude)
      \o <<":">> \o FormatBool(node.is_observer)

\* hash as it would be with last_heard added to the hashed string
HashWithLastHeard(node) == HashInput(node) \o <<":", Digit(node.last_heard)>>

\* Node.hash: Python's hash() of _input. Within one run hash() is a function
\* of the string; the model identifies the hash with the string, i.e. takes
\* distinct strings to have distinct 64-bit hashes.
hash(node) == HashInput(node)

\* Node.to_json
to_json(node) ==
    [public_key |-> node.public_key, name |-> node.name, latitude |-> node.latitude,
     longitude |-> node.longitude, node_type |-> NodeTypeValue(node.node_type),
     is_observer |-> node.is_observer, contact |-> node.contact,
     created_at |-> node.created_at, last_heard |-> node.last_heard]

\* Node(**item) for an item of the stored JSON array
NodeOfJson(item) ==
    Node(item.public_key, item.name, item.latitude, item.longitude,
         NodeTypeOfValue(item.node_type), item.is_observer, item.contact,
         item.created_at, item.last_heard)

----------------------------------------------------------------------------
(* Reconciliation *)

\* [node.hash for node in nodes]
Hashes(nodes) == [i \in DOMAIN nodes |-> hash(nodes[i])]

\* set(m.items()) of the map m built as m[_hash] = _hash over the hashes hs
HashItems(hs) == {<<hs[i], hs[i]>> : i \in DOMAIN hs}

\* the last node of a list (with hashes hs) whose hash is h
LastWithHash(nodes, hs, h) ==
    nodes[CHOOSE i \in DOMAIN hs : hs[i] = h /\ \A j \in DOMAIN hs : j > i => hs[j] # h]

\* all_nodes[h] after both loops: existing_nodes is inserted first, new_nodes
\* second, and a later insertion under the same hash replaces the earlier one
AllNodes(old_nodes, old_hs, fresh_nodes, fresh_hs, h) ==
    IF \E i \in DOMAIN fresh_hs : fresh_hs[i] = h
    THEN LastWithHash(fresh_nodes, fresh_hs, h)
    ELSE LastWithHash(old_nodes, old_hs, h)

\* the tuple returned by _filter_diff_nodes, from its three sets of items
DiffResult(true_new_nodes, duplicate_nodes, missing_nodes, old_nodes, old_hs, fresh_nodes, fresh_hs) ==
    [new |-> {AllNodes(old_nodes, old_hs, fresh_nodes, fresh_hs, it[1]) : it \in true_new_nodes},
     duplicate |-> {AllNodes(old_nodes, old_hs, fresh_nodes, fresh_hs, it[1]) : it \in duplicate_nodes},
     missing |-> {AllNodes(old_nodes, old_hs, fresh_nodes, fresh_hs, it[1]) : it \in missing_nodes}]

\* _filter_diff_nodes as it would be with missing_nodes not reduced by the
\* observed items
FilterDiffNodesMissingAll(old_nodes, fresh_nodes) ==
    LET old_hs == Hashes(old_nodes)
        fresh_hs == Hashes(fresh_nodes)
        existing_nodes_set == HashItems(old_hs)
        new_nodes_set == HashItems(fresh_hs)
    IN  DiffResult(new_nodes_set \ existing_nodes_set,
                   new_nodes_set \cap existing_nodes_set,
                   existing_nodes_set,
                   old_nodes, old_hs, fresh_nodes, fresh_hs)

\* _filter_diff_nodes as it would be with true_new_nodes not reduced by the
\* existing items
FilterDiffNodesNewAll(old_nodes, fresh_nodes) ==
    LET old_hs == Hashes(old_nodes)
        fresh_hs == Hashes(fresh_nodes)
        existing_nodes_set == HashItems(old_hs)
        new_nodes_set == HashItems(fresh_hs)
    IN  DiffResult(new_nodes_set,
                   new_nodes_set \cap existing_nodes_set,
                   existing_nodes_set \ new_nodes_set,
                   old_nodes, old_hs, fresh_nodes, fresh_hs)

\* _filter_diff_nodes(existing_nodes = old_nodes, new_nodes = fresh_nodes).
\* The three returned lists are built by iterating Python sets, whose order is
\* unspecified; each holds one node per hash, so the model returns them as
\* sets of nodes.
filter_diff_nodes(old_nodes, fresh_nodes) ==
    LET old_hs == Hashes(old_nodes)
        fresh_hs == Hashes(fresh_nodes)
        existing_nodes_set == HashItems(old_hs)
        new_nodes_set == HashItems(fresh_hs)
    IN  DiffResult(new_nodes_set \ existing_nodes_set,
                   new_nodes_set \cap existing_nodes_set,
                   existing_nodes_set \ new_nodes_set,
                   old_nodes, old_hs, fresh_nodes, fresh_hs)

----------------------------------------------------------------------------
(* Source normalisers *)

\* the characters str.isdigit() accepts (ASCII digits)
Digits == {"0", "1", "2", "3", "4", "5", "6", "7", "8", "9"}

\* int(c) for one digit
DigitValue(c) == CHOOSE d \in 0..9 : Digit(d) = c

\* str.isdigit(): non-empty and every character a digit
IsDigit(s) == Len(s) > 0 /\ \A i \in DOMAIN s : s[i] \in Digits

RECURSIVE ParseInt(_)
\* int(s) for a string of digits
ParseInt(s) ==
    IF Len(s) = 0 THEN 0
    ELSE 10 * ParseInt(SubSeq(s, 1, Len(s) - 1)) + DigitValue(s[Len(s)])

\* urllib.parse.quote on one character: letters, digits and "_.-~/" are kept,
\* any other character is percent-encoded (the model's only such character
\* is the space)
QuoteChar(c) == IF c = " " THEN <<"%", "2", "0">> ELSE <<c>>

RECURSIVE quote(_)
\* urllib.parse.quote
quote(s) == IF Len(s) = 0 THEN <<>> ELSE QuoteChar(Head(s)) \o quote(Tail(s))

\* _build_contact_url; the three literal pieces of the f-string are kept
\* as single elements
build_contact_url(name, public_key) ==
    <<"meshcore://contact/add?name=">> \o quote(name) \o <<"&public_key=">>
      \o Upper(public_key) \o <<"&type=2">>

\* _iso8601_to_unix_timestamp, on the timestamps the model uses (whole
\* strings here, since the code hands them to time.strptime unsliced): the
\* empty string and any string strptime rejects give 0; time.mktime is taken
\* in UTC
iso8601_to_unix_timestamp(iso_str) ==
    CASE iso_str = "" -> 0
      [] iso_str = "1970-01-01T00:00:01.000Z" -> 1
      [] iso_str = "1970-01-01T00:00:02.000Z" -> 2
      [] OTHER -> 0

\* LetsMeshNodeRole.to_node_type
to_node_type(role) ==
    CASE role = "COMPANION" -> "COMPANION"
      [] role = "REPEATER" -> "REPEATER"
      [] role = "ROOM" -> "ROOM_SERVER"

\* _meshmapper_node_is_room: the loop returns at the first LetsMesh node whose
\* upper-cased public key equals the upper-cased hex_id
meshmapper_node_is_room(node, lm_nodes) ==
    LET matches == {i \in DOMAIN lm_nodes : Upper(lm_nodes[i].public_key) = Upper(node.hex_id)}
    IN  IF matches = {} THEN FALSE
        ELSE LET first == CHOOSE i \in matches : \A j \in matches : i <= j
             IN  lm_nodes[first].device_role = "ROOM"

\* the Node that get_den_repeaters builds from one MeshMapper record
RepeaterNode(repeater, lm_nodes) ==
    Node(repeater.hex_id, repeater.name, Some(repeater.lat), Some(repeater.lon),
         IF meshmapper_node_is_room(repeater, lm_nodes) /\ lm_nodes # <<>>
         THEN "ROOM_SERVER" ELSE "REPEATER",
         FALSE,
         build_contact_url(repeater.name, repeater.hex_id),
         IF IsDigit(repeater.created_at) THEN ParseInt(repeater.created_at) ELSE 0,
         repeater.last_heard)

\* get_den_repeaters, given the two API responses
get_den_repeaters(mm_repeaters, lm_nodes) ==
    [i \in DOMAIN mm_repeaters |-> RepeaterNode(mm_repeaters[i], lm_nodes)]

\* the Node that get_den_companions builds from one LetsMesh record
CompanionNode(node) ==
    Node(node.public_key, node.name,
         IF node.location # None THEN Some(node.location[1].latitude) ELSE None,
         IF node.location # None THEN Some(node.location[1].longitude) ELSE None,
         to_node_type(node.device_role),
         ~node.is_mqtt_connected,
         build_contact_url(node.name, node.public_key),
         iso8601_to_unix_timestamp(node.first_seen),
         iso8601_to_unix_timestamp(node.last_seen))

IsCompanion(node) == node.device_role = "COMPANION"

\* get_den_companions, given the API response
get_den_companions(lm_nodes) ==
    LET kept == SelectSeq(lm_nodes, IsCompanion)
    IN  [i \in DOMAIN kept |-> CompanionNode(kept[i])]

----------------------------------------------------------------------------
(* Snapshot store *)

\* a path at which os.path.exists is false
AbsentFile == [exists |-> FALSE, data |-> <<>>]

\* _read_nodes_from_file
read_nodes_from_file(file) ==
    IF ~file.exists THEN <<>>
    ELSE [i \in DOMAIN file.data |-> NodeOfJson(file.data[i])]

\* the condition as it would be if it read "if new"
WriteNeededNewOnly(new_list, missing_list) == new_list # {}

\* the condition as it would be if it read "if missing"
WriteNeededMissingOnly(new_list, missing_list) == missing_list # {}

\* the condition "if new or missing" of sync_repeaters and sync_companions
WriteNeeded(new_list, missing_list) == new_list # {} \/ missing_list # {}

\* the file after open(path, "w") and f.write(json.dumps([node.to_json() ...]))
WrittenFile(nodes) ==
    [exists |-> TRUE, data |-> [i \in DOMAIN nodes |-> to_json(nodes[i])]]

\* a sync that writes the observed nodes whatever the reconciliation returned
FileAfterSyncAlways(file, nodes) == WrittenFile(nodes)

\* a sync that rewrites a file only if it exists
FileAfterSyncExistingOnly(file, nodes) ==
    LET diff == filter_diff_nodes(read_nodes_from_file(file), nodes)
    IN  IF file.exists /\ WriteNeeded(diff.new, diff.missing) THEN WrittenFile(nodes) ELSE file

\* the file a sync leaves behind: rewritten with all observed nodes, or untouched
FileAfterSync(file, nodes) ==
    LET diff == filter_diff_nodes(read_nodes_from_file(file), nodes)
    IN  IF WriteNeeded(diff.new, diff.missing) THEN WrittenFile(nodes) ELSE file

----------------------------------------------------------------------------
(* API responses the model draws from *)

\* public keys and names
KeyAB12 == <<"a", "b", "1", "2">>

KeyAB12Upper == <<"A", "B", "1", "2">>

KeyAB12Long == <<"a", "b", "1", "2", "c">>

KeyAB12Other == <<"A", "B", "1", "2", "d">>

KeyCD == <<"c", "d">>

KeyEF == <<"e", "f", "3", "4", "5">>

Name1 == <<"n", "1">>

Name2 == <<"n", " ", "2">>

\* a MeshMapperRepeater (the fields id, enabled, power and iata are never read)
MMRepeater(hex_id, name, lat, lon, last_heard, created_at) ==
    [hex_id |-> hex_id, name |-> name, lat |-> lat, lon |-> lon,
     last_heard |-> last_heard, created_at |-> created_at]

\* a LetsMeshNode (the field regions is never read)
LMNode(public_key, name, device_role, first_seen, last_seen, is_mqtt_connected, location) ==
    [public_key |-> public_key, name |-> name, device_role |-> device_role,
     first_seen |-> first_seen, last_seen |-> last_seen,
     is_mqtt_connected |-> is_mqtt_connected, location |-> location]

\* MeshMapper records of the syncs: one repeater heard at two times, and another
SyncMMRecords ==
    {MMRepeater(KeyAB12, Name1, 3, 4, 1, <<"7">>),
     MMRepeater(KeyAB12, Name1, 3, 4, 2, <<"7">>),
     MMRepeater(KeyCD, Name2, 5, 6, 1, <<"x">>)}

\* LetsMesh records of the syncs: the room server of the first repeater (its
\* key in the other case), and a companion
SyncLMRecords ==
    {LMNode(KeyAB12Upper, Name1, "ROOM", "", "1970-01-01T00:00:01.000Z", TRUE, None),
     LMNode(KeyEF, Name2, "COMPANION", "not-a-date", "1970-01-01T00:00:02.000Z", FALSE,
            Some([latitude |-> 3, longitude |-> 4]))}

----------------------------------------------------------------------------
(* The syncs, run by main in the order repeaters, companions; main is run
   again and again by its scheduler, never two runs at once *)

\* sync_repeaters(storage_file_path = repeater_data_file)
SyncRepeaters ==
    /\ pc = "main"
    /\ last \in {"none", "companions"}
    /\ \E mm \in SeqUpTo(SyncMMRecords, MaxRepeaters), lm \in SeqUpTo(SyncLMRecords, MaxLetsMesh) :
         /\ observed' = get_den_repeaters(mm, lm)
         /\ repeater_data_file' = FileAfterSync(repeater_data_file, observed')
    /\ before' = repeater_data_file
    /\ last' = "repeaters"
    /\ UNCHANGED <<companion_data_file, existing_nodes, new_nodes, result,
                   meshmapper_repeaters, letsmesh_nodes, repeaters, pc>>

\* sync_companions(storage_file_path = companion_data_file)
SyncCompanions ==
    /\ pc = "main"
    /\ last = "repeaters"
    /\ \E lm \in SeqUpTo(SyncLMRecords, MaxLetsMesh) :
         /\ observed' = get_den_companions(lm)
         /\ companion_data_file' = FileAfterSync(companion_data_file, observed')
    /\ before' = companion_data_file
    /\ last' = "companions"
    /\ UNCHANGED <<repeater_data_file, existing_nodes, new_nodes, result,
                   meshmapper_repeaters, letsmesh_nodes, repeaters, pc>>

\* the values the variables of the other specifications keep
NoDiff == existing_nodes = <<>> /\ new_nodes = <<>> /\ result = filter_diff_nodes(<<>>, <<>>)

NoRoom == meshmapper_repeaters = <<>> /\ letsmesh_nodes = <<>> /\ repeaters = <<>>

NoSync ==
    /\ repeater_data_file = AbsentFile
    /\ companion_data_file = AbsentFile
    /\ last = "none"
    /\ before = AbsentFile
    /\ observed = <<>>

\* before the first run neither file exists
Init == NoSync /\ NoDiff /\ NoRoom /\ pc = "main"

Next == SyncRepeaters \/ SyncCompanions

Spec == Init /\ [][Next]_vars

\* the file the last sync worked on, as it is now
SyncedFile == IF last = "repeaters" THEN repeater_data_file ELSE companion_data_file

\* the locals of the last sync when it returned: existing_repeaters /
\* existing_companions, and new, duplicate, missing
existing == read_nodes_from_file(before)

SyncDiff == filter_diff_nodes(existing, observed)

----------------------------------------------------------------------------
(* SpecDiff: _filter_diff_nodes as a pure function of two lists of nodes *)

\* a node, the fields its hash reads first
DiffNode(name, public_key, node_type, latitude, longitude, is_observer, contact, created_at, last_heard) ==
    Node(public_key, name, latitude, longitude, node_type, is_observer, contact,
         created_at, last_heard)

\* one node and the nodes that differ from it in one respect: in the three
\* fields the hash leaves out, in the name, in the type, in the location, in
\* the observer flag, and in the public key after its fourth character
DiffNodes ==
    {DiffNode(Name1, KeyAB12Long, "REPEATER", Some(3), Some(4), FALSE,
              build_contact_url(Name1, KeyAB12Long), 7, 1),
     DiffNode(Name1, KeyAB12Long, "REPEATER", Some(3), Some(4), FALSE,
              build_contact_url(Name2, KeyAB12Long), 0, 2),
     DiffNode(Name2, KeyAB12Long, "REPEATER", Some(3), Some(4), FALSE,
              build_contact_url(Name2, KeyAB12Long), 7, 1),
     DiffNode(Name1, KeyAB12Long, "ROOM_SERVER", Some(3), Some(4), FALSE,
              build_contact_url(Name1, KeyAB12Long), 7, 1),
     DiffNode(Name1, KeyAB12Long, "REPEATER", None, None, FALSE,
              build_contact_url(Name1, KeyAB12Long), 7, 1),
     DiffNode(Name1, KeyAB12Long, "REPEATER", Some(3), Some(4), TRUE,
              build_contact_url(Name1, KeyAB12Long), 7, 1),
     DiffNode(Name1, KeyAB12Other, "REPEATER", Some(3), Some(4), FALSE,
              build_contact_url(Name1, KeyAB12Other), 7, 1)}

InitDiff ==
    /\ NoSync /\ NoRoom
    /\ existing_nodes \in SeqUpTo(DiffNodes, MaxDiffLen)
    /\ new_nodes \in SeqUpTo(DiffNodes, MaxDiffLen)
    /\ result = filter_diff_nodes(<<>>, <<>>)
    /\ pc = "diff_call"

\* the call _filter_diff_nodes(existing_nodes, new_nodes)
CallFilterDiffNodes ==
    /\ pc = "diff_call"
    /\ result' = filter_diff_nodes(existing_nodes, new_nodes)
    /\ pc' = "diff_done"
    /\ UNCHANGED <<repeater_data_file, companion_data_file, last, before, observed,
                   existing_nodes, new_nodes, meshmapper_repeaters, letsmesh_nodes,
                   repeaters>>

NextDiff == CallFilterDiffNodes

SpecDiff == InitDiff /\ [][NextDiff]_vars

----------------------------------------------------------------------------
(* SpecRoom: get_den_repeaters as a pure function of the two API responses *)

\* MeshMapper records: the short id AB12 in both cases, and another id
RoomMMRecords ==
    {MMRepeater(KeyAB12Upper, Name1, 3, 4, 1, <<"7">>),
     MMRepeater(KeyAB12, Name1, 3, 4, 1, <<"1", "2">>),
     MMRepeater(KeyCD, Name2, 5, 6, 1, <<>>)}

\* LetsMesh records: the key ab12 as a repeater and as a room server, a longer
\* key that begins with ab12 as a room server, and a companion under another key
RoomLMRecords ==
    {LMNode(KeyAB12, Name1, "REPEATER", "", "", TRUE, None),
     LMNode(KeyAB12Upper, Name1, "ROOM", "", "", TRUE, None),
     LMNode(KeyAB12Long, Name1, "ROOM", "", "", TRUE, None),
     LMNode(KeyCD, Name2, "COMPANION", "", "", TRUE, None)}

InitRoom ==
    /\ NoSync /\ NoDiff
    /\ meshmapper_repeaters \in SeqUpTo(RoomMMRecords, MaxRoomLen)
    /\ letsmesh_nodes \in SeqUpTo(RoomLMRecords, MaxRoomLen)
    /\ repeaters = <<>>
    /\ pc = "room_call"

\* the call get_den_repeaters(), the two APIs answering meshmapper_repeaters
\* and letsmesh_nodes
CallGetDenRepeaters ==
    /\ pc = "room_call"
    /\ repeaters' = get_den_repeaters(meshmapper_repeaters, letsmesh_nodes)
    /\ pc' = "room_done"
    /\ UNCHANGED <<repeater_data_file, companion_data_file, last, before, observed,
                   existing_nodes, new_nodes, result, meshmapper_repeaters,
                   letsmesh_nodes>>

NextRoom == CallGetDenRepeaters

SpecRoom == InitRoom /\ [][NextRoom]_vars

----------------------------------------------------------------------------
(* Properties of _filter_diff_nodes (SpecDiff) *)

\* the fingerprints of a list of nodes, and of a set of nodes
Fingerprints(nodes) == {hash(nodes[i]) : i \in DOMAIN nodes}

FingerprintsOf(node_set) == {hash(n) : n \in node_set}

\* the nodes of a list
Elements(nodes) == {nodes[i] : i \in DOMAIN nodes}

\* no two positions of the list hold the same fingerprint
NoCollisions(nodes) ==
    \A i, j \in DOMAIN nodes : hash(nodes[i]) = hash(nodes[j]) => i = j

\* C1: the three lists returned by _filter_diff_nodes partition the
\* fingerprints of existing and observed: new holds exactly the fingerprints
\* that are in observed and not in existing, duplicate those in both, missing
\* those in existing and not in observed; each list holds one node per
\* fingerprint, so every fingerprint of either input is the fingerprint of a
\* node of exactly one list, and no output node has a fingerprint of neither.
C1_Partition ==
    pc = "diff_done" =>
        LET E == Fingerprints(existing_nodes)
            O == Fingerprints(new_nodes)
            N == FingerprintsOf(result.new)
            D == FingerprintsOf(result.duplicate)
            M == FingerprintsOf(result.missing)
        IN  /\ N = O \ E /\ D = O \cap E /\ M = E \ O
            /\ N \cap D = {} /\ N \cap M = {} /\ D \cap M = {}
            /\ N \cup D \cup M = E \cup O
            /\ Cardinality(result.new) = Cardinality(N)
            /\ Cardinality(result.duplicate) = Cardinality(D)
            /\ Cardinality(result.missing) = Cardinality(M)
            /\ \A f \in E \cup O :
                 Cardinality({n \in result.new \cup result.duplicate \cup result.missing :
                                hash(n) = f}) = 1

\* C1 witness: a call that returned all three lists non-empty, the duplicate
\* being the observed version of a node whose existing version differs
C1_Witness ==
    /\ pc = "diff_done"
    /\ result.new # {} /\ result.duplicate # {} /\ result.missing # {}
    /\ \E d \in result.duplicate : d \notin Elements(existing_nodes)

\* C4: for a snapshot S in which no two nodes share a fingerprint,
\* _filter_diff_nodes(S, S) returns no new node, no missing node, and as
\* duplicates exactly the nodes of S.
C4_NoOpIdempotence ==
    (pc = "diff_done" /\ existing_nodes = new_nodes /\ NoCollisions(existing_nodes)) =>
        /\ result.new = {}
        /\ result.missing = {}
        /\ result.duplicate = Elements(existing_nodes)

\* C4 witness: the call on S, S for a snapshot of two nodes with two fingerprints
C4_Witness ==
    /\ pc = "diff_done"
    /\ existing_nodes = new_nodes
    /\ NoCollisions(existing_nodes)
    /\ Len(existing_nodes) >= 2
    /\ Cardinality(result.duplicate) >= 2

\* two nodes agree on the six fields the fingerprint is derived from
SameFingerprintedFields(m, n) ==
    /\ m.name = n.name
    /\ public_key_id(m) = public_key_id(n)
    /\ m.node_type = n.node_type
    /\ m.latitude = n.latitude
    /\ m.longitude = n.longitude
    /\ m.is_observer = n.is_observer

\* C5: two nodes that agree on name, short identifier, nodeType, latitude,
\* longitude and isObserver have the same hash whatever their contact,
\* created_at and last_heard are; so an existing node and an observed node
\* that agree on these fields are both classified as duplicate (unchanged),
\* neither as new nor as missing.
C5_FingerprintStability ==
    /\ \A m, n \in Elements(existing_nodes) \cup Elements(new_nodes) :
         SameFingerprintedFields(m, n) => hash(m) = hash(n)
    /\ pc = "diff_done" =>
         \A e \in Elements(existing_nodes), o \in Elements(new_nodes) :
            SameFingerprintedFields(e, o) =>
                /\ hash(o) \in FingerprintsOf(result.duplicate)
                /\ hash(o) \notin FingerprintsOf(result.new)
                /\ hash(e) \notin FingerprintsOf(result.missing)

\* C5 witness: a call whose observed node differs from the existing one in
\* contact, created_at and last_heard only, and came out as a duplicate
C5_Witness ==
    /\ pc = "diff_done"
    /\ \E e \in Elements(existing_nodes), o \in Elements(new_nodes) :
         /\ SameFingerprintedFields(e, o)
         /\ e.public_key = o.public_key
         /\ e.contact # o.contact
         /\ e.created_at # o.created_at
         /\ e.last_heard # o.last_heard
         /\ o \in result.duplicate
         /\ result.new = {} /\ result.missing = {}

\* position i of existing and position j of observed hold the same public key
\* with another name, location or type, and no other position of either list
\* holds the fingerprint of one of the two
ChangedInPlace(i, j) ==
    LET e == existing_nodes[i]
        o == new_nodes[j]
    IN  /\ e.public_key = o.public_key
        /\ \/ e.name # o.name
           \/ e.latitude # o.latitude
           \/ e.longitude # o.longitude
           \/ e.node_type # o.node_type
        /\ \A k \in DOMAIN existing_nodes :
             k # i => hash(existing_nodes[k]) \notin {hash(e), hash(o)}
        /\ \A k \in DOMAIN new_nodes :
             k # j => hash(new_nodes[k]) \notin {hash(e), hash(o)}

\* C9: when existing holds e and observed holds o with the same public key but
\* another name, location or type, and no other node of either list shares a
\* fingerprint with e or o, then e is returned as missing, o as new, neither as
\* duplicate, and the condition under which the sync rewrites the file holds.
C9_CoarseGrainedChange ==
    pc = "diff_done" =>
        \A i \in DOMAIN existing_nodes, j \in DOMAIN new_nodes :
            ChangedInPlace(i, j) =>
                /\ existing_nodes[i] \in result.missing
                /\ new_nodes[j] \in result.new
                /\ existing_nodes[i] \notin result.duplicate
                /\ new_nodes[j] \notin result.duplicate
                /\ new_nodes[j] \notin result.missing
                /\ existing_nodes[i] \notin result.new
                /\ WriteNeeded(result.new, result.missing)

\* C9 witness: a call in which a node changed its type in place, beside a
\* node that did not change
C9_Witness ==
    /\ pc = "diff_done"
    /\ \E i \in DOMAIN existing_nodes, j \in DOMAIN new_nodes :
         /\ ChangedInPlace(i, j)
         /\ existing_nodes[i].node_type # new_nodes[j].node_type
         /\ existing_nodes[i].name = new_nodes[j].name
    /\ result.duplicate # {}

----------------------------------------------------------------------------
(* Properties of the syncs (Spec) *)

\* a sync has returned
Synced == last # "none"

\* C2: when the persisted snapshot and the observed collection have the same
\* set of fingerprints, in any order and whatever their last_heard, created_at
\* and contact are, the sync writes nothing: the file is afterwards as it was
\* before (absent if it was absent, else with the same content).
C2_WriteSuppression ==
    (Synced /\ Fingerprints(existing) = Fingerprints(observed)) => SyncedFile = before

\* C2 witness: a sync that found the two fingerprints of its snapshot in the
\* other order and with another last_heard, and left the file alone
C2_Witness ==
    /\ Synced
    /\ before.exists
    /\ Len(existing) = 2 /\ Len(observed) = 2
    /\ hash(existing[1]) = hash(observed[2])
    /\ hash(existing[2]) = hash(observed[1])
    /\ hash(existing[1]) # hash(existing[2])
    /\ \E i, j \in 1..2 :
         hash(existing[i]) = hash(observed[j]) /\ existing[i].last_heard # observed[j].last_heard
    /\ SyncedFile = before

\* C3: when the reconciliation of a sync returns a new node or a missing node,
\* the file afterwards holds exactly the observed collection: the observed
\* nodes in the observed order with the observed field values, and nothing
\* of the old snapshot.
C3_FullRewrite ==
    (Synced /\ (SyncDiff.new # {} \/ SyncDiff.missing # {})) =>
        /\ SyncedFile.exists
        /\ SyncedFile.data = [i \in DOMAIN observed |-> to_json(observed[i])]
        /\ read_nodes_from_file(SyncedFile) = observed

\* C3 witness: a sync with a missing node and no new one, whose duplicate was
\* heard at another time than the snapshot says; the file now holds the
\* observed list, which is not the old one
C3_Witness ==
    /\ Synced
    /\ SyncDiff.missing # {} /\ SyncDiff.new = {} /\ SyncDiff.duplicate # {}
    /\ \E i \in DOMAIN existing, j \in DOMAIN observed :
         hash(existing[i]) = hash(observed[j]) /\ existing[i].last_heard # observed[j].last_heard
    /\ read_nodes_from_file(SyncedFile) = observed
    /\ SyncedFile # before

\* C8 as claimed: when the file does not exist before a sync, the existing
\* snapshot is empty and after the sync the file exists and holds the observed
\* collection, whatever was observed.
C8_CreatedByFirstSync ==
    (Synced /\ ~before.exists) =>
        /\ existing = <<>>
        /\ SyncedFile.exists
        /\ read_nodes_from_file(SyncedFile) = observed

\* C8 as amended: when the file does not exist before a sync, the existing
\* snapshot is empty; if at least one node was observed, the file exists after
\* the sync and holds the observed collection; if nothing was observed, the
\* sync writes nothing and the file still does not exist.
C8_CreatedByFirstNonEmptySync ==
    (Synced /\ ~before.exists) =>
        /\ existing = <<>>
        /\ observed # <<>> =>
             (SyncedFile.exists /\ read_nodes_from_file(SyncedFile) = observed)
        /\ observed = <<>> => ~SyncedFile.exists

\* C8 witness: a sync that found no file, observed two nodes and created the file
C8_Witness ==
    /\ Synced
    /\ ~before.exists
    /\ Len(observed) >= 2
    /\ SyncedFile.exists
    /\ Len(SyncedFile.data) = Len(observed)

\* C10: after every sync the fingerprints of the persisted snapshot (none if
\* the file does not exist) are the fingerprints of the collection that sync
\* observed.
C10_Convergence ==
    Synced => Fingerprints(read_nodes_from_file(SyncedFile)) = Fingerprints(observed)

\* C10 witness: after a sync that wrote nothing, the persisted snapshot has the
\* observed fingerprints but another length and another last_heard than the
\* observed collection
C10_Witness ==
    /\ Synced
    /\ SyncedFile.exists
    /\ SyncedFile = before
    /\ Len(SyncedFile.data) # Len(observed)
    /\ \E i \in DOMAIN SyncedFile.data, j \in DOMAIN observed :
         /\ hash(NodeOfJson(SyncedFile.data[i])) = hash(observed[j])
         /\ SyncedFile.data[i].last_heard # observed[j].last_heard

----------------------------------------------------------------------------
(* Properties of get_den_repeaters (SpecRoom) *)

\* case-insensitive equality of two keys
SameKey(k1, k2) == Upper(k1) = Upper(k2)

\* key begins with the short id, compared case-insensitively
BeginsWith(key, short_id) ==
    Len(key) >= Len(short_id) /\ Upper(Prefix(key, Len(short_id))) = Upper(short_id)

\* C6: the node built from a MeshMapper record is a ROOM_SERVER if some
\* LetsMesh record has the same key, compared case-insensitively, and the role
\* ROOM, and a REPEATER otherwise, also when LetsMesh records with that key
\* and another role come before the ROOM record.
C6_RoomIfSomeRecordIsRoom ==
    pc = "room_done" =>
        \A i \in DOMAIN meshmapper_repeaters :
            repeaters[i].node_type =
                IF \E j \in DOMAIN letsmesh_nodes :
                      /\ SameKey(letsmesh_nodes[j].public_key, meshmapper_repeaters[i].hex_id)
                      /\ letsmesh_nodes[j].device_role = "ROOM"
                THEN "ROOM_SERVER" ELSE "REPEATER"

\* C7: when LetsMesh returns one record, with the role ROOM and a public key
\* that begins with the hex_id of a MeshMapper record and is longer (AB12 and
\* AB12...), the node built from the MeshMapper record is a ROOM_SERVER.
C7_RoomByShortId ==
    (pc = "room_done" /\ Len(letsmesh_nodes) = 1) =>
        \A i \in DOMAIN meshmapper_repeaters :
            (/\ letsmesh_nodes[1].device_role = "ROOM"
             /\ BeginsWith(letsmesh_nodes[1].public_key, meshmapper_repeaters[i].hex_id)
             /\ Len(letsmesh_nodes[1].public_key) > Len(meshmapper_repeaters[i].hex_id))
            => repeaters[i].node_type = "ROOM_SERVER"

----------------------------------------------------------------------------
(* The public key in the fingerprint (SpecDiff) *)

\* two keys have the same first four characters (all of them, for a shorter
\* key), compared case-insensitively
AgreeOnFirstFour(k1, k2) ==
    LET n1 == IF Len(k1) < 4 THEN Len(k1) ELSE 4
        n2 == IF Len(k2) < 4 THEN Len(k2) ELSE 4
    IN  n1 = n2 /\ \A i \in 1..n1 : UpperChar(k1[i]) = UpperChar(k2[i])

\* two nodes agree on everything the fingerprint reads but the public key, and
\* on the first four characters of the public key
SameButLaterInKey(m, n) ==
    /\ m.name = n.name
    /\ m.node_type = n.node_type
    /\ m.latitude = n.latitude
    /\ m.longitude = n.longitude
    /\ m.is_observer = n.is_observer
    /\ AgreeOnFirstFour(m.public_key, n.public_key)

\* every position of observed holds the node of that position of existing,
\* up to the public key after its fourth character and the fields the
\* fingerprint leaves out
ReplacedLaterInKey ==
    /\ Len(existing_nodes) = Len(new_nodes)
    /\ \A i \in DOMAIN existing_nodes : SameButLaterInKey(existing_nodes[i], new_nodes[i])

\* C11: the fingerprint reads the public key only through its first four
\* characters, upper-cased: two nodes that agree on name, type, latitude,
\* longitude and is_observer and whose keys agree case-insensitively on the
\* first four characters have the same hash, also when the keys differ; an
\* existing node and an observed node of that kind are returned as duplicate,
\* not as new or missing, and a sync whose observed nodes replace the nodes of
\* the file in that way writes nothing.
C11_KeyPrefixOnly ==
    /\ \A m, n \in Elements(existing_nodes) \cup Elements(new_nodes) :
         SameButLaterInKey(m, n) => hash(m) = hash(n)
    /\ pc = "diff_done" =>
         /\ \A e \in Elements(existing_nodes), o \in Elements(new_nodes) :
              SameButLaterInKey(e, o) =>
                  /\ hash(o) \in FingerprintsOf(result.duplicate)
                  /\ hash(o) \notin FingerprintsOf(result.new)
                  /\ hash(e) \notin FingerprintsOf(result.missing)
         /\ ReplacedLaterInKey =>
              /\ result.new = {} /\ result.missing = {}
              /\ ~WriteNeeded(result.new, result.missing)
              /\ FileAfterSync(WrittenFile(existing_nodes), new_nodes)
                   = WrittenFile(existing_nodes)

\* C11 witness: the one existing node was replaced by an observed node with
\* another public key, equal up to case in the first four characters; it was
\* returned as duplicate and the write condition is false
C11_Witness ==
    /\ pc = "diff_done"
    /\ Len(existing_nodes) = 1
    /\ ReplacedLaterInKey
    /\ Upper(existing_nodes[1].public_key) # Upper(new_nodes[1].public_key)
    /\ result.duplicate = {new_nodes[1]}
    /\ result.new = {} /\ result.missing = {}
    /\ ~WriteNeeded(result.new, result.missing)

====
